---- MODULE Spec2Model ----
(***************************************************************************)
(* The product-generation pipeline of the repository:                      *)
(*   productGeneratorWorkflow  (organize input, generate, create, upload)  *)
(*   generateProducts          (per-item retry loop)                       *)
(*   createShopifyProducts     (one create call per item, skip on failure) *)
(*   uploadProductImages       (one image call per created record)         *)
(* JavaScript values are records with a "type" field.  A number is kept in *)
(* halves (the value 1.5 is halves = 3) so that the non-integer numbers    *)
(* the code accepts can be told from the integers; NaN is a number too.    *)
(***************************************************************************)
EXTENDS Integers, Sequences, FiniteSets, TLC

VARIABLES
    categories,         \* the caller's argument of productGeneratorWorkflow
    env,                \* process.env: which of the configuration keys are set
    pc,                 \* the position of the workflow
    organizedInput,     \* workflow local: the OrganizedInput of step 1
    errors,             \* workflow local: the stage-level messages
    generatedProducts,  \* workflow local: what generateProducts returned
    createdProducts,    \* workflow local: what createShopifyProducts returned
    result,             \* the WorkflowResult returned to the caller
    allProducts,        \* generateProducts: the products pushed so far
    catIdx,             \* generateProducts: index of categoryData (from 1)
    i,                  \* generateProducts: the item index within the category
    attempts,           \* generateProducts: attempts made for the current item
    lastAttempt,        \* what the latest generation attempt did
    genCalls,           \* number of generateText calls issued
    genAttempts,        \* number of iterations of the retry loop
    created,            \* createShopifyProducts local: createdProducts
    k,                  \* createShopifyProducts / uploadProductImages: loop position
    lastCall,           \* what the latest commerce loop iteration did
    apiCalls,           \* the commerce API calls issued, in order
    nextId              \* the id the commerce platform assigns next

vars == <<categories, env, pc, organizedInput, errors, generatedProducts,
          createdProducts, result, allProducts, catIdx, i, attempts,
          lastAttempt, genCalls, genAttempts, created, k, lastCall,
          apiCalls, nextId>>

(***************************************************************************)
(* Bounds of the model and constants of the program.                       *)
(***************************************************************************)
MaxNameLen == 2        \* longest category name of the normalizer inputs
MaxShort == 2          \* longest enumerated normalizer input
MaxCategories == 10    \* "Maximum 10 categories allowed"
MinCount == 1
MaxCount == 100
maxRetries == 3

(***************************************************************************)
(* JavaScript values.                                                      *)
(***************************************************************************)
Undefined == [type |-> "undefined"]
Num(h) == [type |-> "number", nan |-> FALSE, halves |-> h]
Int2Num(n) == Num(2 * n)
NaN == [type |-> "number", nan |-> TRUE, halves |-> 0]
Str(s) == [type |-> "string", chars |-> s]
Arr(s) == [type |-> "array", items |-> s]

IsInteger(v) == v.type = "number" /\ ~v.nan /\ v.halves % 2 = 0
\* a < b and a > b of JavaScript on numbers: false whenever one side is NaN
JsLess(a, b) == ~a.nan /\ ~b.nan /\ a.halves < b.halves
JsGreater(a, b) == JsLess(b, a)
JsAdd(a, b) == IF a.nan \/ b.nan THEN NaN ELSE Num(a.halves + b.halves)
\* !v of JavaScript
Falsy(v) ==
    \/ v.type = "undefined"
    \/ v.type = "string" /\ v.chars = <<>>
    \/ v.type = "number" /\ (v.nan \/ v.halves = 0)

\* the sequences over S of length up to n
RECURSIVE SeqsUpTo(_, _)
SeqsUpTo(S, n) ==
    IF n = 0 THEN {<<>>}
    ELSE LET shorter == SeqsUpTo(S, n - 1) IN
         shorter \cup {Append(s, x) : s \in {t \in shorter : Len(t) = n - 1}, x \in S}

IsSpace(c) == c = " "

RECURSIVE TrimStart(_)
TrimStart(s) ==
    IF s # <<>> /\ IsSpace(Head(s)) THEN TrimStart(Tail(s)) ELSE s

RECURSIVE TrimEnd(_)
TrimEnd(s) ==
    IF s # <<>> /\ IsSpace(s[Len(s)]) THEN TrimEnd(SubSeq(s, 1, Len(s) - 1)) ELSE s

\* String.prototype.trim
Trim(s) == TrimEnd(TrimStart(s))

(***************************************************************************)
(* Step 1: organize input.                                                 *)
(***************************************************************************)
NullEntry == [isNull |-> TRUE, category |-> Undefined, count |-> Undefined]
Entry(c, n) == [isNull |-> FALSE, category |-> c, count |-> n]

\* the callback of categories.filter
IsValidCategory(cat) ==
    IF cat.isNull \/ Falsy(cat.category) \/ cat.category.type # "string"
    THEN FALSE
    ELSE IF \/ cat.count.type # "number"
            \/ JsLess(cat.count, Int2Num(MinCount))
            \/ JsGreater(cat.count, Int2Num(MaxCount))
    THEN FALSE
    ELSE TRUE

validCategories(cats) == SelectSeq(cats, IsValidCategory)

RECURSIVE SumCounts(_)
\* validCategories.reduce((sum, cat) => sum + cat.count, 0)
SumCounts(cats) ==
    IF cats = <<>> THEN Num(0)
    ELSE JsAdd(SumCounts(SubSeq(cats, 1, Len(cats) - 1)), cats[Len(cats)].count)

Thrown(msg) == [threw |-> TRUE, message |-> msg, value |-> Undefined]
Returned(v) == [threw |-> FALSE, message |-> "", value |-> v]

\* organizeInput with the size limit applied to the filtered entries
organizeInput_SizeAfterFilter(cats) ==
    LET valid == validCategories(cats) IN
    IF Len(cats) = 0
    THEN Thrown("Categories array is required and cannot be empty")
    ELSE IF Len(valid) > MaxCategories
    THEN Thrown("Maximum 10 categories allowed")
    ELSE IF Len(valid) = 0
    THEN Thrown("No valid categories found. Each category needs a name and count between 1-100")
    ELSE Returned([type |-> "object",
                   categories |-> [n \in 1..Len(valid) |->
                       [category |-> Trim(valid[n].category.chars),
                        count |-> valid[n].count]],
                   totalProducts |-> SumCounts(valid)])

organizeInput(cats) ==
    IF Len(cats) = 0
    THEN Thrown("Categories array is required and cannot be empty")
    ELSE IF Len(cats) > MaxCategories
    THEN Thrown("Maximum 10 categories allowed")
    ELSE LET valid == validCategories(cats) IN
         IF Len(valid) = 0
         THEN Thrown("No valid categories found. Each category needs a name and count between 1-100")
         ELSE Returned([type |-> "object",
                        categories |-> [n \in 1..Len(valid) |->
                            [category |-> Trim(valid[n].category.chars),
                             count |-> valid[n].count]],
                        totalProducts |-> SumCounts(valid)])

StepError(step, msg) == [step |-> step, message |-> msg]
NoResult == [type |-> "undefined"]
WorkflowResult(success, total, createdList, errs) ==
    [type |-> "object", success |-> success, totalProducts |-> total,
     createdProducts |-> createdList, errors |-> errs]

NoAttempt == [kind |-> "none"]
NoCall == [kind |-> "none"]

\* the state of the workflow when it is called
Start(input, environment) ==
    /\ categories = input
    /\ env = environment
    /\ pc = "step1"
    /\ organizedInput = Undefined
    /\ errors = <<>>
    /\ generatedProducts = <<>>
    /\ createdProducts = <<>>
    /\ result = NoResult
    /\ allProducts = <<>>
    /\ catIdx = 1
    /\ i = 0
    /\ attempts = 0
    /\ lastAttempt = NoAttempt
    /\ genCalls = 0
    /\ genAttempts = 0
    /\ created = <<>>
    /\ k = 1
    /\ lastCall = NoCall
    /\ apiCalls = <<>>
    /\ nextId = 1

\* step 1 reporting the number of entries asked for when it fails
Step1_CountsEntries ==
    /\ pc = "step1"
    /\ LET r == organizeInput(categories) IN
       IF r.threw
       THEN /\ errors' = Append(errors, StepError(1, r.message))
            /\ result' = WorkflowResult(FALSE, Int2Num(Len(categories)), <<>>, Arr(errors'))
            /\ pc' = "done"
            /\ UNCHANGED organizedInput
       ELSE /\ organizedInput' = r.value
            /\ pc' = "step2"
            /\ UNCHANGED <<errors, result>>
    /\ UNCHANGED <<categories, env, generatedProducts, createdProducts,
                   allProducts, catIdx, i, attempts, lastAttempt, genCalls,
                   genAttempts, created, k, lastCall, apiCalls, nextId>>

\* the try block of step 1 and its catch
Step1 ==
    /\ pc = "step1"
    /\ LET r == organizeInput(categories) IN
       IF r.threw
       THEN /\ errors' = Append(errors, StepError(1, r.message))
            /\ result' = WorkflowResult(FALSE, Num(0), <<>>, Arr(errors'))
            /\ pc' = "done"
            /\ UNCHANGED organizedInput
       ELSE /\ organizedInput' = r.value
            /\ pc' = "step2"
            /\ UNCHANGED <<errors, result>>
    /\ UNCHANGED <<categories, env, generatedProducts, createdProducts,
                   allProducts, catIdx, i, attempts, lastAttempt, genCalls,
                   genAttempts, created, k, lastCall, apiCalls, nextId>>

(***************************************************************************)
(* Step 2: generateProducts.                                               *)
(* An image data URI is its media type, the number of decoded bytes and    *)
(* the decoded bytes as runs <<value, length>>; label is the text drawn    *)
(* into the synthesized SVG.                                               *)
(***************************************************************************)
DataUri(mediaType, length, runs, label) ==
    [mediaType |-> mediaType, length |-> length, runs |-> runs, label |-> label]

SmallImageBytes == 1024
SampleBytes == 100
UniformDistance == 10
SvgTemplateBytes == 242   \* the SVG placeholder without its label

Min(a, b) == IF a < b THEN a ELSE b
Abs(x) == IF x < 0 THEN -x ELSE x

RECURSIVE FirstBytes(_, _)
\* the runs of the first n bytes: for (let i = 0; i < sampleSize; i++) samples.push(buffer[i])
FirstBytes(runs, n) ==
    IF runs = <<>> \/ n <= 0 THEN <<>>
    ELSE <<<<Head(runs)[1], Min(Head(runs)[2], n)>>>>
             \o FirstBytes(Tail(runs), n - Head(runs)[2])

RECURSIVE RunsLength(_)
RunsLength(runs) ==
    IF runs = <<>> THEN 0 ELSE Head(runs)[2] + RunsLength(Tail(runs))

RECURSIVE RunsSum(_)
\* samples.reduce((a, b) => a + b, 0)
RunsSum(runs) ==
    IF runs = <<>> THEN 0
    ELSE Head(runs)[1] * Head(runs)[2] + RunsSum(Tail(runs))

RECURSIVE CountNear(_, _, _)
\* how many samples s have Math.abs(s - sum / n) < UniformDistance
CountNear(runs, sum, n) ==
    IF runs = <<>> THEN 0
    ELSE (IF Abs(Head(runs)[1] * n - sum) < UniformDistance * n
          THEN Head(runs)[2] ELSE 0) + CountNear(Tail(runs), sum, n)

\* samples.filter(s => Math.abs(s - avg) < 10).length, avg = sum / samples.length
uniformCount(samples) ==
    CountNear(samples, RunsSum(samples), RunsLength(samples))

isPlaceholderImage(imageDataUri) ==
    IF imageDataUri.mediaType = "image/svg+xml" THEN TRUE
    ELSE IF imageDataUri.length = 0 THEN FALSE      \* /base64,(.+)/ does not match
    ELSE IF imageDataUri.length < SmallImageBytes THEN TRUE
    ELSE LET samples == FirstBytes(imageDataUri.runs,
                                   Min(SampleBytes, imageDataUri.length))
         IN  \* uniformCount / samples.length > 0.8
             10 * uniformCount(samples) > 8 * RunsLength(samples)

\* the SVG placeholder the generator synthesizes, labelled with the category
SvgPlaceholder(category) ==
    DataUri("image/svg+xml", SvgTemplateBytes + Len(category), <<>>, category)

Title(kind, category, n) == [kind |-> kind, category |-> category, n |-> n]
DefaultVariants ==
    << [title |-> "Standard", price |-> "99.99"],
       [title |-> "Premium", price |-> "149.99"] >>
DefaultFeatures == <<"High quality", "Durable", "Modern design">>

ProductData(title, description, price, variants, features) ==
    [title |-> title, description |-> description, price |-> price,
     variants |-> variants, features |-> features]

\* what JSON.parse gives for the block the model wrote
ParsedJson(text) ==
    ProductData(Title("model", <<>>, 0), "model description", "129.99",
                IF text = "json_no_variants" THEN Undefined
                ELSE IF text = "json_same_titles"
                THEN Arr(<< [title |-> "Black", price |-> "79.99"],
                            [title |-> "Black", price |-> "119.99"] >>)
                ELSE Arr(<< [title |-> "Small / Black", price |-> "79.99"],
                            [title |-> "Large / White", price |-> "119.99"] >>),
                <<"Feature 1", "Feature 2", "Feature 3">>)

\* the text response: the JSON block parsed, or one of the two fallbacks
productData(text, category, item) ==
    IF text \in {"json", "json_no_variants", "json_same_titles"}
    THEN ParsedJson(text)
    ELSE IF text = "no_json"
    THEN ProductData(Title("first line", <<>>, 0), "model text", "99.99",
                     Arr(DefaultVariants), DefaultFeatures)
    ELSE \* JSON.parse threw
         ProductData(Title("Premium", category, item + 1), "model text", "99.99",
                     Arr(DefaultVariants), DefaultFeatures)

\* the first image file of the response as a data URI, else the SVG placeholder
imageDataUri(files, category) ==
    IF files = "photo"
    THEN DataUri("image/jpeg", 2000, << <<255, 2>>, <<216, 30>>, <<17, 40>>, <<130, 1928>> >>, <<>>)
    ELSE IF files = "tiny"
    THEN DataUri("image/png", 500, << <<137, 1>>, <<80, 499>> >>, <<>>)
    ELSE IF files = "empty"
    THEN \* a file of no bytes: base64 is "", uint8Array is truthy
         DataUri("image/png", 0, <<>>, <<>>)
    ELSE IF files = "webp"
    THEN DataUri("image/webp", 2000, << <<82, 4>>, <<200, 40>>, <<15, 56>>, <<90, 1900>> >>, <<>>)
    ELSE IF files = "solid"
    THEN DataUri("image/png", 2000, << <<128, 2000>> >>, <<>>)
    ELSE IF files = "flat80"
    THEN \* 80 of the first 100 bytes are 8 from the mean 108, 20 are 32 from it
         DataUri("image/png", 2000, << <<100, 80>>, <<140, 20>>, <<130, 1900>> >>, <<>>)
    ELSE IF files = "flat81"
    THEN DataUri("image/png", 2000, << <<100, 81>>, <<140, 19>>, <<130, 1900>> >>, <<>>)
    ELSE IF files = "edge10"
    THEN \* 90 of the first 100 bytes are exactly 10 from the mean 110
         DataUri("image/png", 2000, << <<100, 90>>, <<200, 10>>, <<130, 1900>> >>, <<>>)
    ELSE IF files = "size1023"
    THEN DataUri("image/png", 1023, << <<137, 1>>, <<10, 49>>, <<200, 973>> >>, <<>>)
    ELSE IF files = "size1024"
    THEN DataUri("image/png", 1024, << <<137, 1>>, <<10, 49>>, <<200, 974>> >>, <<>>)
    ELSE SvgPlaceholder(category)

GeneratedProduct(data, image, category) ==
    [title |-> data.title, description |-> data.description, price |-> data.price,
     variants |-> data.variants, features |-> data.features,
     image |-> image, category |-> category]

\* the product pushed when the last attempt threw
FallbackProduct(category, item) ==
    GeneratedProduct(
        ProductData(Title("plain", category, item + 1), "fallback description", "99.99",
                    Arr(<< [title |-> "Standard", price |-> "99.99"] >>),
                    DefaultFeatures),
        SvgPlaceholder(category), category)

TextKinds == {"json", "json_no_variants", "no_json", "bad_json"}
FileKinds == {"photo", "tiny", "none"}
Responses ==
    {[threw |-> TRUE, text |-> "", files |-> "none"]}
        \cup {[threw |-> FALSE, text |-> t, files |-> f] : t \in TextKinds, f \in FileKinds}

\* the catch block without the fallback product
OnAttemptError_NoFallback(attempt, category, item) ==
    [do |-> "continue"]

\* the catch block rethrowing after the last attempt
OnAttemptError_Rethrow(attempt, category, item) ==
    IF attempt < maxRetries
    THEN [do |-> "continue"]
    ELSE [do |-> "throw"]

\* the catch block giving up at the first error
OnAttemptError_NoRetry(attempt, category, item) ==
    [do |-> "push", product |-> FallbackProduct(category, item)]

\* the catch block of an attempt
OnAttemptError(attempt, category, item) ==
    IF attempt < maxRetries
    THEN [do |-> "continue"]
    ELSE [do |-> "push", product |-> FallbackProduct(category, item)]

\* the try block retrying a placeholder whatever the attempt number
OnAttemptResult_NeverAccept(attempt, category, item, response) ==
    LET data == productData(response.text, category, item)
        image == imageDataUri(response.files, category)
        isPlaceholder == isPlaceholderImage(image)
    IN  IF isPlaceholder
        THEN [do |-> "continue"]
        ELSE [do |-> "push", product |-> GeneratedProduct(data, image, category)]

\* the try block of an attempt after generateText returned
OnAttemptResult(attempt, category, item, response) ==
    LET data == productData(response.text, category, item)
        image == imageDataUri(response.files, category)
        isPlaceholder == isPlaceholderImage(image)
    IN  IF isPlaceholder /\ attempt < maxRetries
        THEN [do |-> "continue"]
        ELSE [do |-> "push", product |-> GeneratedProduct(data, image, category)]

\* the retry loop keeping the text of the previous attempt when the last
\* attempt throws
Attempt_KeepsEarlierText(attempt, category, item, hasKey, response) ==
    IF ~hasKey \/ response.threw
    THEN IF attempt = maxRetries /\ ~lastAttempt.response.threw
         THEN [do |-> "push",
               product |-> GeneratedProduct(
                               productData(lastAttempt.response.text, category, item),
                               SvgPlaceholder(category), category)]
         ELSE OnAttemptError(attempt, category, item)
    ELSE OnAttemptResult(attempt, category, item, response)

\* one iteration of the retry loop, given what generateText did
Attempt(attempt, category, item, hasKey, response) ==
    IF ~hasKey \/ response.threw
    THEN OnAttemptError(attempt, category, item)
    ELSE OnAttemptResult(attempt, category, item, response)

RECURSIVE LoopPosition(_, _, _)
\* the next <<category index, item index>> whose for-loop conditions hold
LoopPosition(cats, c, j) ==
    IF c > Len(cats) THEN <<c, 0>>
    ELSE IF JsLess(Int2Num(j), cats[c].count) THEN <<c, j>>
    ELSE LoopPosition(cats, c + 1, 0)

\* one iteration of while (!productGenerated && attempts < maxRetries); when
\* the loop ends the for loop moves to the next item
GenerateAttemptOf(responses) ==
    /\ pc = "step2"
    /\ LET cats == organizedInput.categories
           pos == LoopPosition(cats, catIdx, i)
       IN
       /\ pos[1] <= Len(cats)
       /\ \E response \in responses :
            /\ (~env.aiKey => response.threw)
            /\ LET category == cats[pos[1]].category
                   attempt == attempts + 1
                   out == Attempt(attempt, category, pos[2], env.aiKey, response)
                   productGenerated == out.do = "push"
                   loopEnds == productGenerated \/ ~(attempt < maxRetries)
               IN
               /\ genAttempts' = genAttempts + 1
               /\ genCalls' = IF env.aiKey THEN genCalls + 1 ELSE genCalls
               /\ lastAttempt' = [kind |-> "attempt", attempt |-> attempt,
                                  cat |-> pos[1], item |-> pos[2],
                                  response |-> response]
               /\ catIdx' = pos[1]
               /\ IF out.do = "throw"
                  THEN \* the error leaves generateProducts: the catch of step 2
                       /\ errors' = Append(errors, StepError(2, "generateProducts threw"))
                       /\ result' = WorkflowResult(FALSE, organizedInput.totalProducts,
                                                   <<>>, Arr(errors'))
                       /\ pc' = "done"
                       /\ UNCHANGED <<allProducts, i, attempts>>
                  ELSE /\ allProducts' = IF productGenerated
                                         THEN Append(allProducts, out.product)
                                         ELSE allProducts
                       /\ i' = IF loopEnds THEN pos[2] + 1 ELSE pos[2]
                       /\ attempts' = IF loopEnds THEN 0 ELSE attempt
                       /\ UNCHANGED <<pc, errors, result>>
    /\ UNCHANGED <<categories, env, organizedInput, generatedProducts,
                   createdProducts, created, k, lastCall, apiCalls, nextId>>

\* the responses of the runs of the whole pipeline: the text and the files
\* of a response are handled independently, so they vary one at a time
PipeResponses ==
    {r \in Responses :
        \/ r.threw
        \/ r.text = "json" /\ r.files \in {"photo", "none"}
        \/ r.text \in {"json_no_variants", "bad_json"} /\ r.files = "photo"}

GenerateAttempt == GenerateAttemptOf(PipeResponses)
GenerateAnyAttempt == GenerateAttemptOf(Responses)

\* generateProducts returns allProducts; step 2 stores it
Step2Return ==
    /\ pc = "step2"
    /\ LoopPosition(organizedInput.categories, catIdx, i)[1]
           > Len(organizedInput.categories)
    /\ generatedProducts' = allProducts
    /\ pc' = "step3"
    /\ UNCHANGED <<categories, env, organizedInput, errors, createdProducts,
                   result, allProducts, catIdx, i, attempts, lastAttempt,
                   genCalls, genAttempts, created, k, lastCall, apiCalls, nextId>>

(***************************************************************************)
(* Step 3: createShopifyProducts.                                          *)
(***************************************************************************)
\* the check forgetting the access token
CredentialsMissing_DomainOnly(e) == ~e.domain

CredentialsMissing(e) == ~e.domain \/ ~e.token

\* seenValues.has(optionValue) ? `${optionValue} ${index + 1}` : optionValue
uniqueOptionValue(optionValue, index, seenValues) ==
    IF optionValue \in seenValues
    THEN Append(optionValue, ToString(index))
    ELSE optionValue

\* product.variants.map(...), or the default variant; seenValues is a new
\* Set in every call of the map callback
ShopifyVariants(product) ==
    LET vs == product.variants.items IN
    IF Len(vs) > 0
    THEN [n \in 1..Len(vs) |->
            LET optionValue == IF vs[n].title = "" THEN <<"Option", ToString(n)>>
                               ELSE <<vs[n].title>>
                seenValues == {}
            IN  [option1 |-> uniqueOptionValue(optionValue, n, seenValues),
                 price |-> vs[n].price, position |-> n]]
    ELSE << [option1 |-> <<"Default">>,
             price |-> IF product.price = "" THEN "0.00" ELSE product.price,
             position |-> 1] >>

\* building the payload reads product.variants.length
PayloadThrows(product) == product.variants.type # "array"

productPayload(product) ==
    [title |-> product.title, product_type |-> product.category,
     variants |-> ShopifyVariants(product)]

HttpStatuses == {200, 401, 422, 500}
ResponseOk(status) == 200 <= status /\ status <= 299
\* fetch throws, or answers with a status and, when 2xx, a body with or without an id
CreateResponses ==
    {[threw |-> TRUE, status |-> 0, hasId |-> FALSE]}
        \cup {[threw |-> FALSE, status |-> st, hasId |-> FALSE] : st \in HttpStatuses}
        \cup {[threw |-> FALSE, status |-> 200, hasId |-> TRUE]}

\* the try block pushing whenever the response is 2xx, id or no id
CreateSucceeds_NoIdCheck(response) ==
    IF response.threw THEN FALSE
    ELSE IF ~ResponseOk(response.status) THEN FALSE
    ELSE TRUE

\* does the try block of one product reach createdProducts.push
CreateSucceeds(response) ==
    IF response.threw THEN FALSE
    ELSE IF ~ResponseOk(response.status) THEN FALSE
    ELSE IF ~response.hasId THEN FALSE
    ELSE TRUE

\* the record losing the id the platform returned
ShopifyProduct_NoId(id, title, image) == [id |-> 0, title |-> title, image |-> image]

ShopifyProduct(id, title, image) == [id |-> id, title |-> title, image |-> image]

\* the catch of step 3 recording the error and going on to step 4
Step3Call_FallsThrough ==
    /\ pc = "step3"
    /\ IF CredentialsMissing(env)
       THEN /\ errors' = Append(errors, StepError(3, "Shopify credentials not configured"))
            /\ pc' = "step4"
            /\ UNCHANGED <<result, created, k>>
       ELSE /\ created' = <<>>
            /\ k' = 1
            /\ pc' = "create_loop"
            /\ UNCHANGED <<errors, result>>
    /\ UNCHANGED <<categories, env, organizedInput, generatedProducts,
                   createdProducts, allProducts, catIdx, i, attempts,
                   lastAttempt, genCalls, genAttempts, lastCall, apiCalls, nextId>>

\* step 3 without its try/catch: the creator's error leaves the workflow
Step3Call_Uncaught ==
    /\ pc = "step3"
    /\ IF CredentialsMissing(env)
       THEN /\ pc' = "threw"
            /\ UNCHANGED <<errors, result, created, k>>
       ELSE /\ created' = <<>>
            /\ k' = 1
            /\ pc' = "create_loop"
            /\ UNCHANGED <<errors, result>>
    /\ UNCHANGED <<categories, env, organizedInput, generatedProducts,
                   createdProducts, allProducts, catIdx, i, attempts,
                   lastAttempt, genCalls, genAttempts, lastCall, apiCalls, nextId>>

\* step 3 calls createShopifyProducts, which checks the credentials first
Step3Call ==
    /\ pc = "step3"
    /\ IF CredentialsMissing(env)
       THEN /\ errors' = Append(errors, StepError(3, "Shopify credentials not configured"))
            /\ result' = WorkflowResult(Len(createdProducts) > 0,
                                        organizedInput.totalProducts,
                                        createdProducts, Arr(errors'))
            /\ pc' = "done"
            /\ UNCHANGED <<created, k>>
       ELSE /\ created' = <<>>
            /\ k' = 1
            /\ pc' = "create_loop"
            /\ UNCHANGED <<errors, result>>
    /\ UNCHANGED <<categories, env, organizedInput, generatedProducts,
                   createdProducts, allProducts, catIdx, i, attempts,
                   lastAttempt, genCalls, genAttempts, lastCall, apiCalls, nextId>>

\* one iteration of for (const product of products)
CreateProduct ==
    /\ pc = "create_loop"
    /\ k <= Len(generatedProducts)
    /\ LET product == generatedProducts[k] IN
       IF PayloadThrows(product)
       THEN /\ lastCall' = [kind |-> "create", item |-> k, issued |-> FALSE,
                            response |-> [threw |-> TRUE, status |-> 0, hasId |-> FALSE],
                            pushed |-> FALSE]
            /\ UNCHANGED <<created, apiCalls, nextId>>
       ELSE \E response \in CreateResponses :
            LET ok == CreateSucceeds(response) IN
            /\ lastCall' = [kind |-> "create", item |-> k, issued |-> TRUE,
                            response |-> response, pushed |-> ok]
            /\ apiCalls' = Append(apiCalls,
                                  [op |-> "create", item |-> k,
                                   id |-> IF ok THEN nextId ELSE 0,
                                   payload |-> productPayload(product)])
            /\ IF ok
               THEN /\ created' = Append(created,
                                         ShopifyProduct(nextId, product.title, product.image))
                    /\ nextId' = nextId + 1
               ELSE UNCHANGED <<created, nextId>>
    /\ k' = k + 1
    /\ UNCHANGED <<categories, env, pc, organizedInput, errors, generatedProducts,
                   createdProducts, result, allProducts, catIdx, i, attempts,
                   lastAttempt, genCalls, genAttempts>>

\* step 3 recording an error when the creator skipped an item
Step3Return_ReportsSkips ==
    /\ pc = "create_loop"
    /\ k > Len(generatedProducts)
    /\ createdProducts' = created
    /\ pc' = "step4"
    /\ lastCall' = NoCall
    /\ errors' = IF Len(created) < Len(generatedProducts)
                 THEN Append(errors, StepError(3, "some products were not created"))
                 ELSE errors
    /\ UNCHANGED <<categories, env, organizedInput, generatedProducts,
                   result, allProducts, catIdx, i, attempts, lastAttempt,
                   genCalls, genAttempts, created, k, apiCalls, nextId>>

\* createShopifyProducts returns; step 3 stores the list
Step3Return ==
    /\ pc = "create_loop"
    /\ k > Len(generatedProducts)
    /\ createdProducts' = created
    /\ pc' = "step4"
    /\ lastCall' = NoCall
    /\ UNCHANGED <<categories, env, organizedInput, errors, generatedProducts,
                   result, allProducts, catIdx, i, attempts, lastAttempt,
                   genCalls, genAttempts, created, k, apiCalls, nextId>>

(***************************************************************************)
(* Step 4: uploadProductImages.                                            *)
(***************************************************************************)
EmptyImage == DataUri("", 0, <<>>, <<>>)

\* the extension taken from the media type with no coercion of SVG
imageExtension_KeepsSvg(mediaType) ==
    IF mediaType \in {"image/jpeg", "image/jpg"} THEN "jpg"
    ELSE IF mediaType = "image/png" THEN "png"
    ELSE IF mediaType = "image/webp" THEN "webp"
    ELSE IF mediaType = "image/svg+xml" THEN "svg"
    ELSE "png"

\* the extension of the file name, from the media type of the data URI
imageExtension(mediaType) ==
    IF mediaType \in {"image/jpeg", "image/jpg"} THEN "jpg"
    ELSE IF mediaType = "image/png" THEN "png"
    ELSE IF mediaType = "image/webp" THEN "webp"
    ELSE IF mediaType = "image/svg+xml" THEN "png"
    ELSE "png"

UploadResponses ==
    {[threw |-> TRUE, status |-> 0]}
        \cup {[threw |-> FALSE, status |-> st] : st \in {200, 500}}

\* the loop testing only product.image, not the base64 data behind the prefix
SkipsUpload_NoDataCheck(product) == product.image = EmptyImage

\* the two "continue" before the fetch: no image, or no base64 data
SkipsUpload(product) == product.image = EmptyImage \/ product.image.length = 0

EnvValues == [domain : BOOLEAN, token : BOOLEAN, aiKey : BOOLEAN]

\* process.env is read again by step 4: the configuration may have been
\* changed while step 3 ran
ConfigChange ==
    /\ pc = "step4"
    /\ \E e \in EnvValues :
        /\ e # env
        /\ e.aiKey = env.aiKey
        /\ CredentialsMissing(e)
        /\ ~CredentialsMissing(env)
        /\ env' = e
    /\ UNCHANGED <<categories, pc, organizedInput, errors, generatedProducts,
                   createdProducts, result, allProducts, catIdx, i, attempts,
                   lastAttempt, genCalls, genAttempts, created, k, lastCall,
                   apiCalls, nextId>>

\* the final return always carrying the errors array
DoneResult_AlwaysErrors(total, createdList, errs) ==
    WorkflowResult(TRUE, total, createdList, Arr(errs))

\* errors: errors.length > 0 ? errors : undefined
DoneResult(total, createdList, errs) ==
    WorkflowResult(TRUE, total, createdList,
                   IF Len(errs) > 0 THEN Arr(errs) ELSE Undefined)

\* the catch of step 4 returning a failure as the catch of step 3 does
Step4Call_Terminal ==
    /\ pc = "step4"
    /\ IF CredentialsMissing(env)
       THEN /\ errors' = Append(errors, StepError(4, "Shopify credentials not configured"))
            /\ result' = WorkflowResult(FALSE, organizedInput.totalProducts,
                                        createdProducts, Arr(errors'))
            /\ pc' = "done"
            /\ UNCHANGED k
       ELSE /\ k' = 1
            /\ pc' = "upload_loop"
            /\ UNCHANGED <<errors, result>>
    /\ UNCHANGED <<categories, env, organizedInput, generatedProducts,
                   createdProducts, allProducts, catIdx, i, attempts,
                   lastAttempt, genCalls, genAttempts, created, lastCall,
                   apiCalls, nextId>>

\* step 4 calls uploadProductImages, which checks the credentials first; its
\* throw is caught and the workflow returns the final result
Step4Call ==
    /\ pc = "step4"
    /\ IF CredentialsMissing(env)
       THEN /\ errors' = Append(errors, StepError(4, "Shopify credentials not configured"))
            /\ result' = DoneResult(organizedInput.totalProducts, createdProducts, errors')
            /\ pc' = "done"
            /\ UNCHANGED k
       ELSE /\ k' = 1
            /\ pc' = "upload_loop"
            /\ UNCHANGED <<errors, result>>
    /\ UNCHANGED <<categories, env, organizedInput, generatedProducts,
                   createdProducts, allProducts, catIdx, i, attempts,
                   lastAttempt, genCalls, genAttempts, created, lastCall,
                   apiCalls, nextId>>

\* one iteration of for (const product of products)
UploadImage ==
    /\ pc = "upload_loop"
    /\ k <= Len(createdProducts)
    /\ LET product == createdProducts[k] IN
       IF SkipsUpload(product)
       THEN /\ lastCall' = [kind |-> "upload", item |-> k, issued |-> FALSE,
                            response |-> [threw |-> FALSE, status |-> 0]]
            /\ UNCHANGED apiCalls
       ELSE \E response \in UploadResponses :
            /\ lastCall' = [kind |-> "upload", item |-> k, issued |-> TRUE,
                            response |-> response]
            /\ apiCalls' = Append(apiCalls,
                                  [op |-> "image", item |-> k, id |-> product.id,
                                   payload |-> [attachment |-> product.image.length,
                                                extension |-> imageExtension(product.image.mediaType)]])
    /\ k' = k + 1
    /\ UNCHANGED <<categories, env, pc, organizedInput, errors, generatedProducts,
                   createdProducts, result, allProducts, catIdx, i, attempts,
                   lastAttempt, genCalls, genAttempts, created, nextId>>

\* uploadProductImages returns; the workflow returns the final result
Step4Return ==
    /\ pc = "upload_loop"
    /\ k > Len(createdProducts)
    /\ result' = DoneResult(organizedInput.totalProducts, createdProducts, errors)
    /\ pc' = "done"
    /\ UNCHANGED <<categories, env, organizedInput, errors, generatedProducts,
                   createdProducts, allProducts, catIdx, i, attempts, lastAttempt,
                   genCalls, genAttempts, created, k, lastCall, apiCalls, nextId>>

(***************************************************************************)
(* The whole pipeline on small inputs.                                     *)
(***************************************************************************)
MaxItems == 2          \* most products one run of the pipeline asks for
MaxPipeCategories == 2 \* most entries of an input of the pipeline

\* the number of iterations of for (let i = 0; i < count; i++)
Iterations(count) ==
    IF count.type # "number" \/ count.nan \/ count.halves <= 0 THEN 0
    ELSE (count.halves + 1) \div 2

RECURSIVE TotalIterations(_)
TotalIterations(cats) ==
    IF cats = <<>> THEN 0
    ELSE Iterations(Head(cats).count) + TotalIterations(Tail(cats))

PipeEntries ==
    {Entry(Str(<<"a">>), Int2Num(1)), Entry(Str(<<"b">>), Int2Num(1)),
     Entry(Str(<<"b">>), Int2Num(2)), Entry(Str(<<"a">>), Num(3))}
PipeInputs ==
    {input \in SeqsUpTo(PipeEntries, MaxPipeCategories) :
        TotalIterations(validCategories(input)) <= MaxItems}

Init == \E input \in PipeInputs, e \in EnvValues : Start(input, e)

Next ==
    \/ Step1
    \/ GenerateAttempt
    \/ Step2Return
    \/ Step3Call
    \/ CreateProduct
    \/ Step3Return
    \/ ConfigChange
    \/ Step4Call
    \/ UploadImage
    \/ Step4Return

Spec == Init /\ [][Next]_vars

\* the generator on its own, with every response
InitGen ==
    \E input \in PipeInputs, e \in EnvValues :
        /\ ~CredentialsMissing(e)
        /\ Start(input, e)
NextGen ==
    \/ Step1
    \/ GenerateAnyAttempt
    \/ Step2Return
SpecGen == InitGen /\ [][NextGen]_vars

\* the generator on image files at the limits of the placeholder detector
ImageFileKinds ==
    {"photo", "none", "empty", "solid", "flat80", "flat81", "edge10",
     "size1023", "size1024"}
ImageResponses ==
    {[threw |-> TRUE, text |-> "", files |-> "none"]}
        \cup {[threw |-> FALSE, text |-> "json", files |-> f] : f \in ImageFileKinds}
GenerateImageAttempt == GenerateAttemptOf(ImageResponses)
NextImage ==
    \/ Step1
    \/ GenerateImageAttempt
    \/ Step2Return
SpecImage == InitGen /\ [][NextImage]_vars

\* the whole pipeline on inputs with entries the normalizer drops and with
\* image files of no bytes
EdgeEntries ==
    {Entry(Str(<<"a">>), Int2Num(1)), Entry(Str(<<"b">>), Int2Num(1)),
     Entry(Str(<<"a">>), Int2Num(0)), NullEntry}
EdgeInputs ==
    {input \in SeqsUpTo(EdgeEntries, MaxPipeCategories) :
        TotalIterations(validCategories(input)) <= MaxItems}
EdgeResponses ==
    {[threw |-> TRUE, text |-> "", files |-> "none"]}
        \cup {[threw |-> FALSE, text |-> "json", files |-> f] :
                  f \in {"photo", "empty", "webp"}}
        \cup {[threw |-> FALSE, text |-> "json_same_titles", files |-> "size1024"]}

GenerateEdgeAttempt == GenerateAttemptOf(EdgeResponses)

InitEdge == \E input \in EdgeInputs, e \in EnvValues : Start(input, e)
NextEdge ==
    \/ Step1
    \/ GenerateEdgeAttempt
    \/ Step2Return
    \/ Step3Call
    \/ CreateProduct
    \/ Step3Return
    \/ ConfigChange
    \/ Step4Call
    \/ UploadImage
    \/ Step4Return
SpecEdge == InitEdge /\ [][NextEdge]_vars

(***************************************************************************)
(* The normalizer on its own: every input up to MaxShort entries, and      *)
(* inputs padded to the size limit and one beyond it.                      *)
(***************************************************************************)
NameChars == {" ", "a"}
GoodName == Str(<<"a">>)
GoodCount == Int2Num(2)

Names == SeqsUpTo(NameChars, MaxNameLen)
CategoryValues == {Str(s) : s \in Names} \cup {Undefined, Int2Num(5)}
CountValues ==
    {Num(h) : h \in 0..3} \cup {Num(2 * MaxCount + h) : h \in -1..2}
        \cup {NaN, Undefined, Str(<<"a">>)}
NormEntries ==
    {Entry(c, GoodCount) : c \in CategoryValues}
        \cup {Entry(GoodName, n) : n \in CountValues}
        \cup {NullEntry}

Pad(head, filler, n) == head \o [j \in 1..(n - Len(head)) |-> filler]
NormInputs ==
    SeqsUpTo(NormEntries, MaxShort)
        \cup {Pad(h, f, n) : h \in SeqsUpTo(NormEntries, 1), f \in NormEntries,
                             n \in {MaxCategories, MaxCategories + 1}}

AllEnv == [domain |-> TRUE, token |-> TRUE, aiKey |-> TRUE]

InitNorm == \E input \in NormInputs : Start(input, AllEnv)
NextNorm == Step1
SpecNorm == InitNorm /\ [][NextNorm]_vars

(***************************************************************************)
(* The claims.                                                             *)
(***************************************************************************)
Last(s) == s[Len(s)]
Step1Failed ==
    /\ pc = "done"
    /\ organizedInput = Undefined
    /\ result # NoResult
    /\ result.success = FALSE
    /\ Len(errors) = 1
    /\ errors[1].step = 1

\* C1: the normalizer fails with a validation error and returns no batch
\* whenever the raw input is empty or has more than 10 entries, whatever a
\* filtering of the entries would leave.
C1_SizeCheckOnRawInput ==
    (pc # "step1" /\ (Len(categories) = 0 \/ Len(categories) > 10)) => Step1Failed

\* 11 entries of which exactly one is valid, rejected
C1_Witness ==
    /\ Step1Failed
    /\ Len(categories) = 11
    /\ Len(validCategories(categories)) = 1

\* an entry as the data model wants it: a non-empty name, an integer count in [1,100]
WellFormedEntry(cat) ==
    /\ ~cat.isNull
    /\ cat.category.type = "string"
    /\ cat.category.chars # <<>>
    /\ IsInteger(cat.count)
    /\ cat.count.halves >= 2 * 1
    /\ cat.count.halves <= 2 * 100

\* C2: for an input of 1 to 10 entries the batch holds exactly the entries with
\* a non-empty name and an integer count in [1,100], in input order, names
\* trimmed and counts unchanged; with no such entry the normalizer fails.
C2_Claimed ==
    (pc # "step1" /\ Len(categories) \in 1..10) =>
        LET sub == SelectSeq(categories, WellFormedEntry) IN
        IF sub = <<>>
        THEN Step1Failed
        ELSE /\ organizedInput # Undefined
             /\ organizedInput.categories =
                    [n \in 1..Len(sub) |->
                        [category |-> Trim(sub[n].category.chars),
                         count |-> sub[n].count]]

\* C3: every batch the normalizer returns has 1 to 10 categories, every count
\* an integer in [1,100], and totalProducts the sum of the counts.
C3_Claimed ==
    organizedInput # Undefined =>
        /\ Len(organizedInput.categories) \in 1..10
        /\ \A n \in 1..Len(organizedInput.categories) :
              LET c == organizedInput.categories[n].count IN
              IsInteger(c) /\ c.halves >= 2 * 1 /\ c.halves <= 2 * 100
        /\ organizedInput.totalProducts = SumCounts(organizedInput.categories)

\* C4: no returned batch has a blank category name, and an input whose only
\* entry has a blank (empty or all-whitespace) name fails.
C4_Claimed ==
    /\ organizedInput # Undefined =>
          \A n \in 1..Len(organizedInput.categories) :
              organizedInput.categories[n].category # <<>>
    /\ ( /\ pc # "step1"
         /\ Len(categories) = 1
         /\ ~categories[1].isNull
         /\ categories[1].category.type = "string"
         /\ Trim(categories[1].category.chars) = <<>> ) => Step1Failed

BatchIsValid ==
    /\ organizedInput # Undefined
    /\ \A n \in 1..Len(organizedInput.categories) :
          IsInteger(organizedInput.categories[n].count)

RECURSIVE Repeat(_, _)
Repeat(x, n) == IF n <= 0 THEN <<>> ELSE <<x>> \o Repeat(x, n - 1)

RECURSIVE ExpectedCategories(_)
\* each category count times, in the order of the batch
ExpectedCategories(cats) ==
    IF cats = <<>> THEN <<>>
    ELSE Repeat(Head(cats).category, Head(cats).count.halves \div 2)
             \o ExpectedCategories(Tail(cats))

IsFallback(product) ==
    /\ product.title.kind = "plain"
    /\ product.image.mediaType = "image/svg+xml"

\* C5: for a valid batch, whatever the attempts did, the generator returns
\* totalProducts items: count items of each category, in the batch's order.
C5_GeneratorCount ==
    (pc = "step3" /\ BatchIsValid) =>
        /\ 2 * Len(generatedProducts) = organizedInput.totalProducts.halves
        /\ [n \in 1..Len(generatedProducts) |-> generatedProducts[n].category]
               = ExpectedCategories(organizedInput.categories)

\* two categories, and every item ended as the fallback of a third attempt that threw
C5_Witness ==
    /\ pc = "step3"
    /\ BatchIsValid
    /\ Len(organizedInput.categories) = 2
    /\ organizedInput.categories[1].category # organizedInput.categories[2].category
    /\ env.aiKey
    /\ Len(generatedProducts) = 2
    /\ \A n \in 1..Len(generatedProducts) : IsFallback(generatedProducts[n])

\* C6: once normalization succeeded the generate stage never fails the
\* pipeline: no result carries a step-2 error, and the create stage starts
\* with the complete output of the generator.
C6_GenerateNeverFails ==
    /\ (result # NoResult /\ result.errors # Undefined) =>
           \A n \in 1..Len(result.errors.items) : result.errors.items[n].step # 2
    /\ (organizedInput # Undefined /\ pc \notin {"step1", "step2"}) =>
           /\ generatedProducts = allProducts
           /\ Len(generatedProducts) = TotalIterations(organizedInput.categories)

\* the create loop runs on products that are all fallbacks, three attempts each
C6_Witness ==
    /\ pc = "create_loop"
    /\ env.aiKey
    /\ Len(generatedProducts) = 2
    /\ genCalls = 3 * Len(generatedProducts)
    /\ \A n \in 1..Len(generatedProducts) : IsFallback(generatedProducts[n])

AttemptStep == genAttempts' = genAttempts + 1
AttemptThrew(a) == a.response.threw \/ ~env.aiKey
AttemptCategory(a) == organizedInput.categories[a.cat].category
AttemptImage(a) == imageDataUri(a.response.files, AttemptCategory(a))
AttemptPlaceholder(a) == ~AttemptThrew(a) /\ isPlaceholderImage(AttemptImage(a))
\* nothing is appended and the same item is attempted again
RetriesItem(a) ==
    /\ allProducts' = allProducts
    /\ pc' = "step2"
    /\ attempts' = a.attempt
    /\ catIdx' = a.cat
    /\ i' = a.item
\* one product is appended and the loop of the item ends
EndsItem(a) ==
    /\ Len(allProducts') = Len(allProducts) + 1
    /\ SubSeq(allProducts', 1, Len(allProducts)) = allProducts
    /\ pc' = "step2"
    /\ attempts' = 0
    /\ catIdx' = a.cat
    /\ i' = a.item + 1

\* C7: at most 3 attempts per item; a placeholder image on attempt 1 or 2
\* appends nothing and is followed by another attempt; an image that is no
\* placeholder ends the loop with that result; a third attempt that returns
\* is appended even with a placeholder image.
C7_RetryPolicy ==
    [][AttemptStep =>
        LET a == lastAttempt' IN
        /\ a.attempt \in 1..3
        /\ (AttemptPlaceholder(a) /\ a.attempt < 3) => RetriesItem(a)
        /\ (~AttemptThrew(a) /\ ~AttemptPlaceholder(a)) =>
              (EndsItem(a) /\ Last(allProducts').image = AttemptImage(a))
        /\ (~AttemptThrew(a) /\ a.attempt = 3) =>
              (EndsItem(a) /\ Last(allProducts').image = AttemptImage(a))]_vars

\* a third attempt returned a placeholder image and its product was appended
C7_Witness ==
    /\ pc = "step2"
    /\ lastAttempt # NoAttempt
    /\ lastAttempt.attempt = 3
    /\ AttemptPlaceholder(lastAttempt)
    /\ allProducts # <<>>
    /\ Last(allProducts).image = AttemptImage(lastAttempt)
    /\ Last(allProducts).title.kind = "model"

\* C8: an attempt that throws appends nothing and is retried on attempt 1 or
\* 2; on attempt 3 exactly one synthetic fallback item (synthetic text, SVG
\* placeholder, tagged with the category) is appended and the generator goes
\* on with the next item.
C8_ThrowHandling ==
    [][(AttemptStep /\ AttemptThrew(lastAttempt')) =>
        LET a == lastAttempt' IN
        IF a.attempt < 3
        THEN RetriesItem(a)
        ELSE /\ EndsItem(a)
             /\ LET p == Last(allProducts') IN
                /\ p.category = AttemptCategory(a)
                /\ p.title = Title("plain", AttemptCategory(a), a.item + 1)
                /\ p.price = "99.99"
                /\ p.variants = Arr(<< [title |-> "Standard", price |-> "99.99"] >>)
                /\ p.features = DefaultFeatures
                /\ p.image.mediaType = "image/svg+xml"
                /\ p.image.label = AttemptCategory(a)]_vars

\* the first item ended as the fallback and the generator produced the next one
C8_Witness ==
    /\ env.aiKey
    /\ Len(allProducts) = 2
    /\ IsFallback(allProducts[1])
    /\ allProducts[2].title.kind = "model"

\* C9: the credentials are checked once when the creator and the publisher
\* start: with the store domain or the access token absent the stage throws a
\* configuration error and has issued no commerce API call.
C9_CredentialsFirst ==
    [][/\ (pc = "step3" /\ (~env.domain \/ ~env.token)) =>
              /\ pc' = "done"
              /\ errors' = Append(errors, StepError(3, "Shopify credentials not configured"))
              /\ result'.errors = Arr(errors')
              /\ apiCalls' = <<>>
       /\ (pc = "step4" /\ (~env.domain \/ ~env.token)) =>
              /\ pc' = "done"
              /\ errors' = Append(errors, StepError(4, "Shopify credentials not configured"))
              /\ result'.errors = Arr(errors')
              /\ apiCalls' = apiCalls
              /\ \A n \in 1..Len(apiCalls) : apiCalls[n].op # "image"
       /\ (pc \in {"step3", "step4"}) => apiCalls' = apiCalls]_vars

\* the creator threw with only the access token absent, products waiting
C9_Witness ==
    /\ pc = "done"
    /\ env.domain /\ ~env.token
    /\ generatedProducts # <<>>
    /\ Len(errors) = 1
    /\ errors[1].step = 3
    /\ apiCalls = <<>>

\* C10: with credentials present the creator issues exactly one create call
\* per generated item, in order, and returns normally whatever the responses.
C10_Claimed ==
    pc = "step4" =>
        /\ \A n \in 1..Len(apiCalls) : apiCalls[n].op = "create"
        /\ [n \in 1..Len(apiCalls) |-> apiCalls[n].item]
               = [n \in 1..Len(generatedProducts) |-> n]

\* the create calls among the commerce calls, and those that were answered
\* 2xx with an id
CreateCalls == SelectSeq(apiCalls, LAMBDA c : c.op = "create")
SucceededCalls == SelectSeq(apiCalls, LAMBDA c : c.op = "create" /\ c.id # 0)
\* the response of a create call lets the creator push a record
AnsweredWithId(call) ==
    /\ call.issued
    /\ ~call.response.threw
    /\ call.response.status \in 200..299
    /\ call.response.hasId

\* C11: the creator's list holds one record for exactly the items whose create
\* call succeeded with an id, in the items' order, each record with the image
\* data of its item; so it is never longer than the list of generated items.
C11_CreatedSubsequence ==
    /\ pc = "create_loop" =>
          /\ [n \in 1..Len(created) |->
                 [id |-> created[n].id, image |-> created[n].image]]
               = [n \in 1..Len(SucceededCalls) |->
                    [id |-> SucceededCalls[n].id,
                     image |-> generatedProducts[SucceededCalls[n].item].image]]
          /\ \A m, n \in 1..Len(CreateCalls) :
                m < n => CreateCalls[m].item < CreateCalls[n].item
          /\ \A m, n \in 1..Len(SucceededCalls) :
                m # n => SucceededCalls[m].id # SucceededCalls[n].id
          /\ Len(created) <= Len(generatedProducts)
          /\ (lastCall.kind = "create" /\ lastCall.issued) =>
                /\ Last(apiCalls).item = lastCall.item
                /\ (Last(apiCalls).id # 0) = AnsweredWithId(lastCall)
          /\ (lastCall.kind = "create" /\ ~lastCall.issued) =>
                \A n \in 1..Len(apiCalls) : apiCalls[n].item # lastCall.item
    /\ pc \in {"step4", "upload_loop"} =>
          /\ createdProducts = created
          /\ Len(createdProducts) <= Len(generatedProducts)

\* of two items the first create call failed and only the second
\* became a record
C11_Witness ==
    /\ pc = "step4"
    /\ Len(generatedProducts) = 2
    /\ Len(CreateCalls) = 2
    /\ CreateCalls[1].id = 0
    /\ Len(createdProducts) = 1
    /\ createdProducts[1].id = CreateCalls[2].id
    /\ createdProducts[1].image = generatedProducts[2].image
    /\ generatedProducts[1].image # generatedProducts[2].image

ImageCalls == SelectSeq(apiCalls, LAMBDA c : c.op = "image")
UploadStep == pc = "upload_loop" /\ k' = k + 1

\* C12: with credentials present the publisher visits the records in order
\* and issues one attach-image call for a record whose image data is not
\* empty and none for a record whose image data is empty; whatever the
\* response, it goes on with the next record and returns without an error.
C12_PublisherCalls ==
    [][/\ (pc = "step4" /\ pc' = "upload_loop") => k' = 1
       /\ UploadStep =>
             LET product == createdProducts[k] IN
             /\ k <= Len(createdProducts)
             /\ IF product.image.length > 0
                THEN /\ Len(apiCalls') = Len(apiCalls) + 1
                     /\ SubSeq(apiCalls', 1, Len(apiCalls)) = apiCalls
                     /\ Last(apiCalls').op = "image"
                     /\ Last(apiCalls').id = product.id
                ELSE apiCalls' = apiCalls
             /\ pc' = "upload_loop"
             /\ errors' = errors
             /\ result' = NoResult
       /\ (pc = "upload_loop" /\ pc' # "upload_loop") =>
             /\ k > Len(createdProducts)
             /\ pc' = "done"
             /\ errors' = errors
             /\ apiCalls' = apiCalls
             /\ result'.success
             /\ result'.errors = Undefined]_vars

\* the first record's image has no data and got no call, the call of the
\* second record threw, and the publisher returned
C12_Witness ==
    /\ pc = "done"
    /\ Len(createdProducts) = 2
    /\ createdProducts[1].image.length = 0
    /\ createdProducts[1].image # EmptyImage
    /\ lastCall.kind = "upload"
    /\ lastCall.item = 2
    /\ lastCall.issued
    /\ lastCall.response.threw
    /\ Len(ImageCalls) = 1
    /\ ImageCalls[1].id = createdProducts[2].id
    /\ result.success
    /\ errors = <<>>

\* the stage a position of the workflow belongs to
Stage(p) ==
    IF p = "step1" THEN 1
    ELSE IF p = "step2" THEN 2
    ELSE IF p \in {"step3", "create_loop"} THEN 3
    ELSE IF p \in {"step4", "upload_loop"} THEN 4
    ELSE 5

\* C13: the stages run in the order Normalize, Generate, Create, Publish,
\* Done and none is entered again; every generation call precedes every
\* create call, every create call precedes every attach-image call, and
\* every attach-image call targets an id a successful create call returned.
C13_StageOrder ==
    [][/\ Stage(pc') >= Stage(pc)
       /\ Stage(pc') <= Stage(pc) + 1 \/ pc' = "done"
       /\ (genCalls' # genCalls \/ genAttempts' # genAttempts) =>
             (Stage(pc) = 2 /\ apiCalls' = <<>>)
       /\ apiCalls' # apiCalls =>
             /\ Len(apiCalls') = Len(apiCalls) + 1
             /\ SubSeq(apiCalls', 1, Len(apiCalls)) = apiCalls
             /\ Last(apiCalls').op = "create" =>
                   (Stage(pc) = 3 /\ ImageCalls = <<>>)
             /\ Last(apiCalls').op = "image" =>
                   /\ Stage(pc) = 4
                   /\ \E n \in 1..Len(apiCalls) :
                         /\ apiCalls[n].op = "create"
                         /\ apiCalls[n].id # 0
                         /\ apiCalls[n].id = Last(apiCalls').id]_vars

\* a run with generation calls, a failed and a successful create call and an
\* attach-image call, ended
C13_Witness ==
    /\ pc = "done"
    /\ genCalls >= 2
    /\ Len(CreateCalls) = 2
    /\ Len(SucceededCalls) = 1
    /\ Len(ImageCalls) = 1
    /\ ImageCalls[1].id = SucceededCalls[1].id

\* the three validation errors of the normalizer
NormalizeMessages ==
    {"Categories array is required and cannot be empty",
     "Maximum 10 categories allowed",
     "No valid categories found. Each category needs a name and count between 1-100"}

\* C14: if normalization fails the pipeline ends at stage 1: the result is
\* success = false, totalRequested = 0, an empty created list and an errors
\* list of exactly the one normalize error, with no generation call and no
\* commerce call made.
C14_NormalizeFailureTerminal ==
    (pc # "step1" /\ organizedInput = Undefined) =>
        /\ pc = "done"
        /\ ~ENABLED NextEdge
        /\ result.type = "object"
        /\ result.success = FALSE
        /\ result.totalProducts = Num(0)
        /\ result.createdProducts = <<>>
        /\ result.errors.type = "array"
        /\ Len(result.errors.items) = 1
        /\ result.errors.items[1].step = 1
        /\ result.errors.items[1].message \in NormalizeMessages
        /\ genCalls = 0
        /\ genAttempts = 0
        /\ apiCalls = <<>>

\* an input of two entries, neither of them valid, was rejected
C14_Witness ==
    /\ pc = "done"
    /\ Len(categories) = 2
    /\ validCategories(categories) = <<>>
    /\ organizedInput = Undefined
    /\ result.errors.items[1].message =
           "No valid categories found. Each category needs a name and count between 1-100"

StageErrors(step) == SelectSeq(errors, LAMBDA e : e.step = step)

\* C15: if the create stage throws the pipeline ends at stage 3: no
\* attach-image call is made, and the result has totalRequested =
\* batch.totalCount, errors of exactly the one create error, created the
\* records created before the throw, and success = (created is not empty).
C15_CreateFailureTerminal ==
    StageErrors(3) # <<>> =>
        /\ pc = "done"
        /\ ~ENABLED Next
        /\ ImageCalls = <<>>
        /\ result.type = "object"
        /\ result.totalProducts = organizedInput.totalProducts
        /\ result.errors = Arr(<<StepError(3, "Shopify credentials not configured")>>)
        /\ [n \in 1..Len(result.createdProducts) |-> result.createdProducts[n].id]
               = [n \in 1..Len(SucceededCalls) |-> SucceededCalls[n].id]
        /\ result.success = (Len(result.createdProducts) > 0)

\* the creator threw with only the store domain absent, two products waiting
C15_Witness ==
    /\ pc = "done"
    /\ ~env.domain /\ env.token
    /\ Len(generatedProducts) = 2
    /\ StageErrors(3) # <<>>
    /\ result.success = FALSE
    /\ result.totalProducts = Int2Num(2)

\* C16: if the publish stage throws after the create stage completed, one
\* stage-4 message is appended to errors and the pipeline proceeds to Done
\* with success = true; the created list of the result is exactly the
\* creator's output, whatever the publish stage did.
C16_PublishFailureNonTerminal ==
    /\ StageErrors(4) # <<>> =>
          /\ pc = "done"
          /\ Len(StageErrors(4)) = 1
          /\ Last(errors) = StepError(4, "Shopify credentials not configured")
          /\ result.type = "object"
          /\ result.success = TRUE
          /\ result.errors = Arr(errors)
          /\ result.createdProducts = created
    /\ (Stage(pc) >= 4 /\ organizedInput # Undefined /\ StageErrors(3) = <<>>) =>
          /\ createdProducts = created
          /\ pc = "done" => result.createdProducts = created

\* the publisher threw after the creator had created two records
C16_Witness ==
    /\ pc = "done"
    /\ StageErrors(4) # <<>>
    /\ Len(created) = 2
    /\ result.createdProducts = created
    /\ result.success
    /\ ImageCalls = <<>>

\* the run came to the final return: normalization succeeded and neither
\* step 2 nor step 3 returned early
ReachedDone ==
    /\ pc = "done"
    /\ organizedInput # Undefined
    /\ StageErrors(2) = <<>>
    /\ StageErrors(3) = <<>>

\* C17: every result returned after normalization succeeded has
\* totalRequested = batch.totalCount; in a run that reaches Done the errors
\* field is absent exactly when no stage-level error was recorded and is the
\* list of the recorded messages otherwise.
C17_TotalsAndErrors ==
    /\ (result # NoResult /\ organizedInput # Undefined) =>
          result.totalProducts = organizedInput.totalProducts
    /\ ReachedDone =>
          /\ (result.errors = Undefined) = (errors = <<>>)
          /\ errors # <<>> => result.errors = Arr(errors)

\* a run over two categories reached Done with no error recorded
C17_Witness ==
    /\ ReachedDone
    /\ Len(organizedInput.categories) = 2
    /\ result.totalProducts = Int2Num(2)
    /\ errors = <<>>
    /\ result.errors = Undefined
    /\ Len(SucceededCalls) < Len(CreateCalls)

\* a WorkflowResult: success, totalProducts, createdProducts, errors?
IsStructuredResult(r) ==
    /\ r.type = "object"
    /\ r.success \in BOOLEAN
    /\ r.totalProducts.type = "number"
    /\ \A n \in 1..Len(r.createdProducts) : r.createdProducts[n].id > 0
    /\ r.errors.type \in {"array", "undefined"}

C19_SkipsNotSurfaced ==
    (pc = "done" /\ organizedInput # Undefined /\ env.domain /\ env.token) =>
        /\ result.success = TRUE
        /\ result.totalProducts = organizedInput.totalProducts
        /\ Len(result.createdProducts) = Len(SucceededCalls)
        /\ errors = <<>>
        /\ result.errors = Undefined

\* one category of two items: the create call of the second failed, one
\* record was created and the result carries no errors
C19_Witness ==
    /\ pc = "done"
    /\ env.domain /\ env.token
    /\ organizedInput # Undefined
    /\ Len(organizedInput.categories) = 1
    /\ organizedInput.categories[1].count = Int2Num(2)
    /\ Len(CreateCalls) = 2
    /\ CreateCalls[1].id # 0
    /\ CreateCalls[2].id = 0
    /\ Len(result.createdProducts) = 1
    /\ result.success
    /\ result.totalProducts = Int2Num(2)
    /\ result.errors = Undefined

\* the latest attach-image call was issued and failed
UploadFailed ==
    /\ lastCall.kind = "upload"
    /\ lastCall.issued
    /\ (lastCall.response.threw \/ lastCall.response.status \notin 200..299)

\* C20: when the attach-image call of a created record fails, the result has
\* success = true, created still holds the record, and errors holds one
\* message of stage 4.
C20_Claimed ==
    (pc = "done" /\ UploadFailed) =>
        /\ result.success = TRUE
        /\ \E n \in 1..Len(result.createdProducts) :
              result.createdProducts[n] = createdProducts[lastCall.item]
        /\ result.errors # Undefined
        /\ Len(SelectSeq(result.errors.items, LAMBDA e : e.step = 4)) = 1

\* C21: a result with success = true has at least one created record; a run
\* in which every create call failed does not report success.
C21_Claimed ==
    (pc = "done" /\ result.success = TRUE) => result.createdProducts # <<>>

\* C22: in every product payload the creator sends the variants' option
\* values are pairwise distinct: of two variants with the same title the
\* later one's option value gets a numeric suffix.
C22_Claimed ==
    \A c \in 1..Len(CreateCalls) :
        LET vs == CreateCalls[c].payload.variants IN
        \A m, n \in 1..Len(vs) : m # n => vs[m].option1 # vs[n].option1

RECURSIVE CountWithin(_, _, _)
\* how many samples lie within 10 of sum / n, a distance of exactly 10 included
CountWithin(runs, sum, n) ==
    IF runs = <<>> THEN 0
    ELSE (IF Abs(Head(runs)[1] * n - sum) <= 10 * n
          THEN Head(runs)[2] ELSE 0) + CountWithin(Tail(runs), sum, n)

\* the classification as the claim words it
ClaimedPlaceholder(image) ==
    \/ image.mediaType = "image/svg+xml"
    \/ image.length < 1024
    \/ LET samples == FirstBytes(image.runs, Min(100, image.length))
       IN  10 * CountWithin(samples, RunsSum(samples), RunsLength(samples))
               >= 8 * RunsLength(samples)

\* C23: an image is classified as placeholder exactly when it is an SVG data
\* URI, or has fewer than 1024 decoded bytes, or at least 80% of its first
\* 100 bytes lie within 10 of their mean, both limits included; seen on
\* attempts 1 and 2, where a placeholder is retried and anything else pushed.
C23_Claimed ==
    (pc = "step2" /\ lastAttempt # NoAttempt) =>
        ((~AttemptThrew(lastAttempt) /\ lastAttempt.attempt < 3) =>
            ((attempts # 0) = ClaimedPlaceholder(AttemptImage(lastAttempt))))

\* the latest attempt returned and its product was pushed
AttemptPushed ==
    /\ pc = "step2"
    /\ lastAttempt # NoAttempt
    /\ ~AttemptThrew(lastAttempt)
    /\ attempts = 0
    /\ allProducts # <<>>

\* C24: when the model's text has no JSON block or the block does not parse,
\* the attempt raises no error and its text payload is the synthetic one: a
\* title derived from the category and the item index, price "99.99", two
\* default variants and three generic features.
C24_Claimed ==
    (AttemptPushed /\ lastAttempt.response.text \in {"no_json", "bad_json"}) =>
        LET p == Last(allProducts) IN
        /\ p.title.kind \in {"Premium", "plain"}
        /\ p.title.category = AttemptCategory(lastAttempt)
        /\ p.title.n = lastAttempt.item + 1
        /\ p.price = "99.99"
        /\ p.variants = Arr(DefaultVariants)
        /\ Len(p.variants.items) = 2
        /\ Len(p.features) = 3

\* the create call just made was answered 2xx without an id
AnsweredWithoutId(call) ==
    /\ call.kind = "create"
    /\ call.issued
    /\ ~call.response.threw
    /\ call.response.status \in 200..299
    /\ ~call.response.hasId

\* C25: a create call answered 2xx without an id is a failure of its item:
\* no record is added to the creator's list, the creator goes on with the
\* next item, and attach-image calls are made only for ids of records of the
\* list, so none is made for that item.
C25_MissingIdSkips ==
    [][/\ (pc = "create_loop" /\ k' = k + 1 /\ AnsweredWithoutId(lastCall')) =>
             /\ lastCall'.item = k
             /\ created' = created
             /\ nextId' = nextId
             /\ pc' = "create_loop"
       /\ \A n \in 1..Len(apiCalls') :
             apiCalls'[n].op = "image" =>
                 \E m \in 1..Len(created') : created'[m].id = apiCalls'[n].id
       /\ Len(SelectSeq(apiCalls', LAMBDA c : c.op = "image")) <= Len(created')]_vars

\* the create call of the first of two items was answered 2xx without an id
\* and the creator is at the second item with nothing created
C25_Witness ==
    /\ pc = "create_loop"
    /\ AnsweredWithoutId(lastCall)
    /\ lastCall.item = 1
    /\ k = 2
    /\ Len(generatedProducts) = 2
    /\ created = <<>>

\* the extension the claim gives a media type
ClaimedExtension(mediaType) ==
    CASE mediaType \in {"image/jpeg", "image/jpg"} -> "jpg"
      [] mediaType = "image/png" -> "png"
      [] mediaType = "image/webp" -> "webp"
      [] mediaType = "image/svg+xml" -> "png"

\* C26: the file extension of an attach-image call depends on the record's
\* media type only: jpeg/jpg gives jpg, png gives png, webp gives webp and
\* svg gives png; it is never a vector extension.
C26_ExtensionFromMediaType ==
    \A n \in 1..Len(ImageCalls) :
        LET call == ImageCalls[n]
            product == createdProducts[call.item]
        IN  /\ call.payload.extension = ClaimedExtension(product.image.mediaType)
            /\ call.payload.extension \in {"jpg", "png", "webp"}

\* attach-image calls were made for an SVG and for a WebP image
C26_Witness ==
    /\ pc = "done"
    /\ Len(ImageCalls) = 2
    /\ {createdProducts[ImageCalls[n].item].image.mediaType : n \in 1..2}
           = {"image/svg+xml", "image/webp"}
    /\ {ImageCalls[n].payload.extension : n \in 1..2} = {"png", "webp"}

\* C27: a run makes at most 3 x batch.totalCount generation attempts, at
\* most batch.totalCount create calls and at most created.length
\* attach-image calls.
C27_Claimed ==
    organizedInput # Undefined =>
        /\ 2 * genAttempts <= 3 * organizedInput.totalProducts.halves
        /\ 2 * Len(CreateCalls) <= organizedInput.totalProducts.halves
        /\ Len(ImageCalls) <= Len(createdProducts)

\* C28: in every result the errors field is either absent or a list of
\* exactly one message, never an empty list and never a longer one.
C28_AtMostOneError ==
    /\ Len(errors) <= 1
    /\ result # NoResult =>
          \/ result.errors = Undefined
          \/ /\ result.errors.type = "array"
             /\ Len(result.errors.items) = 1

\* a run in which a create call failed and the publisher threw returned the
\* one stage-4 message
C28_Witness ==
    /\ pc = "done"
    /\ result.errors # Undefined
    /\ Len(result.errors.items) = 1
    /\ result.errors.items[1].step = 4
    /\ Len(SucceededCalls) < Len(CreateCalls)

\* C29: without the AI gateway key no model call is made, every item takes
\* its 3 attempts and becomes the synthetic fallback, the generator returns
\* batch.totalCount items, no stage-2 error is recorded, and the create stage
\* issues its calls for those fallback products.
C29_Claimed ==
    (~env.aiKey /\ organizedInput # Undefined) =>
        /\ genCalls = 0
        /\ StageErrors(2) = <<>>
        /\ genAttempts = 3 * Len(allProducts) + attempts
        /\ \A n \in 1..Len(allProducts) : IsFallback(allProducts[n])
        /\ pc \notin {"step1", "step2"} =>
              /\ generatedProducts = allProducts
              /\ 2 * Len(generatedProducts) = organizedInput.totalProducts.halves
        /\ \A n \in 1..Len(CreateCalls) :
              /\ CreateCalls[n].item = n
              /\ CreateCalls[n].payload = productPayload(generatedProducts[n])
        /\ (pc \in {"step4", "upload_loop"} \/ ReachedDone) =>
              Len(CreateCalls) = Len(generatedProducts)

\* an attempt step that appended a product
PushStep == AttemptStep /\ Len(allProducts') = Len(allProducts) + 1

\* C30: every item the generator outputs comes from the last attempt made
\* for it: an accepted item has the text payload and the image of that
\* attempt, and when the attempt threw (it is then the third) the item is
\* the synthetic fallback, whatever the attempt before it had returned.
C30_LastAttemptOnly ==
    [][PushStep =>
        LET a == lastAttempt'
            category == AttemptCategory(a)
            p == Last(allProducts')
        IN  /\ a.attempt = attempts + 1
            /\ SubSeq(allProducts', 1, Len(allProducts)) = allProducts
            /\ IF AttemptThrew(a)
               THEN /\ a.attempt = 3
                    /\ p = FallbackProduct(category, a.item)
               ELSE /\ p.image = imageDataUri(a.response.files, category)
                    /\ p = GeneratedProduct(
                               productData(a.response.text, category, a.item),
                               p.image, category)]_vars

\* a third attempt threw with the key present and the only item is the
\* synthetic fallback
C30_Witness ==
    /\ pc = "step2"
    /\ env.aiKey
    /\ lastAttempt # NoAttempt
    /\ lastAttempt.attempt = 3
    /\ lastAttempt.response.threw
    /\ genCalls = 3
    /\ allProducts = << FallbackProduct(AttemptCategory(lastAttempt), lastAttempt.item) >>

====
